---- MODULE Spec2Model ----
(***************************************************************************)
(* RFMInsight Engine: the RFM scoring, rule-based segmentation, K-means    *)
(* clustering and reporting core (src/src/core/rfm_calculator.py),         *)
(* modelled as a state machine over the fields of one RFMCalculator.       *)
(*                                                                         *)
(* A DataFrame is a sequence of records (one record per row, the fields    *)
(* are the columns).  An attribute that may be None is a record            *)
(* [set |-> BOOLEAN, rows |-> table].                                      *)
(*                                                                         *)
(* pandas.qcut is library code: it is modelled by its documented           *)
(* behaviour (bin edges = linearly interpolated quantiles of the values,   *)
(* right-closed bins, lowest edge included, duplicate edges rejected),     *)
(* with the edges computed in exact rational arithmetic.                   *)
(*                                                                         *)
(* sklearn's KMeans and silhouette_score are library code with a fixed     *)
(* random_state: what they return for a given table and cluster count is   *)
(* fixed by the variable kmeans, and the conditions under which they       *)
(* reject their input are the documented ones.  Inertia and silhouette     *)
(* values are reals; the model keeps them as integers on a fixed scale.    *)
(***************************************************************************)
EXTENDS Integers, Sequences, FiniteSets

VARIABLES
    metrics,      \* the per-customer metrics table the caller holds
    n_quantiles,  \* the n_quantiles argument the caller passes
    rfm_data,     \* RFMCalculator.rfm_data
    rfm_scores,   \* RFMCalculator.rfm_scores
    segments,     \* RFMCalculator.segments
    clusters,     \* RFMCalculator.clusters
    n_clusters,   \* the n_clusters argument the caller passes
    max_clusters, \* the max_clusters argument the caller passes
    kmeans,       \* what KMeans(k).fit_predict and silhouette_score give for k
    optimal,      \* what the last _find_optimal_clusters printed
    clustering_results, \* the dictionary returned by the last perform_clustering
    ret,          \* the value returned by the last call
    raised,       \* the exception raised by the last call, "none" if it returned
    op,           \* the last method called
    engine,       \* the result fields of one RFMInsightEngine
    processor,    \* the fields of the engine's DataProcessor
    calls,        \* the calculate_rfm_scores calls in progress on the calculator
    written       \* what the engine last wrote as its report

vars == <<metrics, n_quantiles, rfm_data, rfm_scores, segments, clusters,
          n_clusters, max_clusters, kmeans, optimal, clustering_results,
          ret, raised, op,
          engine, processor, calls, written>>

----------------------------------------------------------------------------
(* Bounds of the model *)

MaxRecords == 3
MaxCustomers == 7
MaxStride == 3
MaxQuantiles == 15
MaxSegRecords == 2
MaxSpread == 20
MaxClusters == 5
MaxPoints == 6

(* Program constants *)

DefaultQuantiles == 5

DefaultMaxClusters == 10

----------------------------------------------------------------------------
(* Optional values *)

None == [set |-> FALSE, rows |-> <<>>]

Some(t) == [set |-> TRUE, rows |-> t]

NoneInt == [set |-> FALSE, val |-> 0]

SomeInt(k) == [set |-> TRUE, val |-> k]

----------------------------------------------------------------------------
(* Series.rank(method='first'): ranks 1..n in ascending order of value,    *)
(* equal values ranked in the order they appear in the column.             *)

RankMin(col, i) ==
    1 + Cardinality({j \in 1..Len(col) : col[j] < col[i]})

RankFirst(col, i) ==
    1 + Cardinality({j \in 1..Len(col) :
                        \/ col[j] < col[i]
                        \/ (col[j] = col[i] /\ j < i)})

Column(t, name) == [i \in 1..Len(t) |-> t[i][name]]

----------------------------------------------------------------------------
(* pandas.qcut(ranks, q, labels=[1..q]).                                   *)
(* The ranks are a permutation of 1..n, so the quantile at j/q (linear     *)
(* interpolation) is 1 + j*(n-1)/q.  Edges are kept multiplied by q.       *)

QcutEdgeOfCount(j, n, q) == q + j * n

QcutEdge(j, n, q) == q + j * (n - 1)

(* qcut raises ValueError("Bin edges must be unique") when two of the q+1  *)
(* edges coincide; the quantiles of an empty column are all NaN.           *)
QcutRaises(n, q) ==
    \/ n = 0
    \/ \E j, k \in 0..q : j # k /\ QcutEdge(j, n, q) = QcutEdge(k, n, q)

(* bins.searchsorted(x, side='left'), then ids[x == bins[0]] = 1;          *)
(* the label of bin id is labels[id - 1] = id.                             *)
QcutLabelLowestExcluded(r, n, q) ==
    Cardinality({j \in 0..q : QcutEdge(j, n, q) < q * r})

QcutLabel(r, n, q) ==
    IF q * r = QcutEdge(0, n, q)
    THEN 1
    ELSE Cardinality({j \in 0..q : QcutEdge(j, n, q) < q * r})

QcutRank(col, i, q) == QcutLabel(RankFirst(col, i), Len(col), q)

----------------------------------------------------------------------------
(* astype(str) and astype(int) on non-negative integers: decimal digits.   *)

RECURSIVE StrOf(_)
StrOf(n) == IF n < 10 THEN <<n>> ELSE StrOf(n \div 10) \o <<n % 10>>

RECURSIVE IntOf(_)
IntOf(s) ==
    IF Len(s) = 0 THEN 0
    ELSE 10 * IntOf(SubSeq(s, 1, Len(s) - 1)) + s[Len(s)]

RFMScoreSum(r, f, m) == r + f + m

RFMScoreOf(r, f, m) == IntOf(StrOf(r) \o StrOf(f) \o StrOf(m))

----------------------------------------------------------------------------
(* RFMCalculator.calculate_rfm_scores *)

ScoredRowUnreversed(t, i, q) ==
    LET r == QcutRank(Column(t, "Recency"), i, q)
        f == QcutRank(Column(t, "Frequency"), i, q)
        m == QcutRank(Column(t, "Monetary"), i, q)
    IN  [CustomerID |-> t[i].CustomerID,
         Recency    |-> t[i].Recency,
         Frequency  |-> t[i].Frequency,
         Monetary   |-> t[i].Monetary,
         R_Score    |-> r,
         F_Score    |-> f,
         M_Score    |-> m,
         RFM_Score  |-> RFMScoreOf(r, f, m)]

ScoredRow(t, i, q) ==
    LET r == q + 1 - QcutRank(Column(t, "Recency"), i, q)
        f == QcutRank(Column(t, "Frequency"), i, q)
        m == QcutRank(Column(t, "Monetary"), i, q)
    IN  [CustomerID |-> t[i].CustomerID,
         Recency    |-> t[i].Recency,
         Frequency  |-> t[i].Frequency,
         Monetary   |-> t[i].Monetary,
         R_Score    |-> r,
         F_Score    |-> f,
         M_Score    |-> m,
         RFM_Score  |-> RFMScoreOf(r, f, m)]

ScoredTable(t, q) == [i \in 1..Len(t) |-> ScoredRow(t, i, q)]

CalculateRfmScores(t, q) ==
    /\ op' = "calculate_rfm_scores"
    /\ IF QcutRaises(Len(t), q)
       THEN /\ rfm_data' = Some(t)
            /\ raised' = "ValueError"
            /\ ret' = None
            /\ UNCHANGED rfm_scores
       ELSE /\ rfm_data' = Some(ScoredTable(t, q))
            /\ rfm_scores' = rfm_data'
            /\ raised' = "none"
            /\ ret' = rfm_scores'
    /\ UNCHANGED <<metrics, n_quantiles, segments, clusters>>
    /\ UNCHANGED <<engine, processor, calls, written>>
    /\ UNCHANGED <<n_clusters, max_clusters, kmeans, optimal,
                   clustering_results>>

----------------------------------------------------------------------------
(* RFMCalculator.create_segments *)

assign_segment_raw_frequency(row) ==
    LET r == row.R_Score
        f == row.Frequency
        m == row.M_Score
    IN  IF r >= 4 /\ f >= 4 /\ m >= 4 THEN "Champions"
        ELSE IF r >= 3 /\ f >= 3 /\ m >= 3 THEN "Loyal Customers"
        ELSE IF r >= 4 /\ f >= 2 /\ m >= 2 THEN "Potential Loyalist"
        ELSE IF r >= 4 /\ f <= 2 /\ m <= 2 THEN "New Customers"
        ELSE IF r >= 3 /\ f >= 3 /\ m <= 2 THEN "Promising"
        ELSE IF r >= 2 /\ f >= 2 /\ m >= 2 THEN "Need Attention"
        ELSE IF r <= 2 /\ f >= 2 /\ m >= 2 THEN "About to Sleep"
        ELSE IF r <= 2 /\ f >= 3 /\ m >= 3 THEN "At Risk"
        ELSE IF r <= 1 /\ f >= 4 /\ m >= 4 THEN "Cannot Lose Them"
        ELSE IF r <= 2 /\ f <= 2 /\ m >= 2 THEN "Hibernating"
        ELSE "Lost"

assign_segment_loyal_first(row) ==
    LET r == row.R_Score
        f == row.F_Score
        m == row.M_Score
    IN  IF r >= 3 /\ f >= 3 /\ m >= 3 THEN "Loyal Customers"
        ELSE IF r >= 4 /\ f >= 4 /\ m >= 4 THEN "Champions"
        ELSE IF r >= 4 /\ f >= 2 /\ m >= 2 THEN "Potential Loyalist"
        ELSE IF r >= 4 /\ f <= 2 /\ m <= 2 THEN "New Customers"
        ELSE IF r >= 3 /\ f >= 3 /\ m <= 2 THEN "Promising"
        ELSE IF r >= 2 /\ f >= 2 /\ m >= 2 THEN "Need Attention"
        ELSE IF r <= 2 /\ f >= 2 /\ m >= 2 THEN "About to Sleep"
        ELSE IF r <= 2 /\ f >= 3 /\ m >= 3 THEN "At Risk"
        ELSE IF r <= 1 /\ f >= 4 /\ m >= 4 THEN "Cannot Lose Them"
        ELSE IF r <= 2 /\ f <= 2 /\ m >= 2 THEN "Hibernating"
        ELSE "Lost"

assign_segment_at_risk_first(row) ==
    LET r == row.R_Score
        f == row.F_Score
        m == row.M_Score
    IN  IF r >= 4 /\ f >= 4 /\ m >= 4 THEN "Champions"
        ELSE IF r >= 3 /\ f >= 3 /\ m >= 3 THEN "Loyal Customers"
        ELSE IF r >= 4 /\ f >= 2 /\ m >= 2 THEN "Potential Loyalist"
        ELSE IF r >= 4 /\ f <= 2 /\ m <= 2 THEN "New Customers"
        ELSE IF r >= 3 /\ f >= 3 /\ m <= 2 THEN "Promising"
        ELSE IF r >= 2 /\ f >= 2 /\ m >= 2 THEN "Need Attention"
        ELSE IF r <= 2 /\ f >= 3 /\ m >= 3 THEN "At Risk"
        ELSE IF r <= 2 /\ f >= 2 /\ m >= 2 THEN "About to Sleep"
        ELSE IF r <= 1 /\ f >= 4 /\ m >= 4 THEN "Cannot Lose Them"
        ELSE IF r <= 2 /\ f <= 2 /\ m >= 2 THEN "Hibernating"
        ELSE "Lost"

assign_segment(row) ==
    LET r == row.R_Score
        f == row.F_Score
        m == row.M_Score
    IN  IF r >= 4 /\ f >= 4 /\ m >= 4 THEN "Champions"
        ELSE IF r >= 3 /\ f >= 3 /\ m >= 3 THEN "Loyal Customers"
        ELSE IF r >= 4 /\ f >= 2 /\ m >= 2 THEN "Potential Loyalist"
        ELSE IF r >= 4 /\ f <= 2 /\ m <= 2 THEN "New Customers"
        ELSE IF r >= 3 /\ f >= 3 /\ m <= 2 THEN "Promising"
        ELSE IF r >= 2 /\ f >= 2 /\ m >= 2 THEN "Need Attention"
        ELSE IF r <= 2 /\ f >= 2 /\ m >= 2 THEN "About to Sleep"
        ELSE IF r <= 2 /\ f >= 3 /\ m >= 3 THEN "At Risk"
        ELSE IF r <= 1 /\ f >= 4 /\ m >= 4 THEN "Cannot Lose Them"
        ELSE IF r <= 2 /\ f <= 2 /\ m >= 2 THEN "Hibernating"
        ELSE "Lost"

SegmentedRow(row) ==
    [CustomerID |-> row.CustomerID,
     Recency    |-> row.Recency,
     Frequency  |-> row.Frequency,
     Monetary   |-> row.Monetary,
     R_Score    |-> row.R_Score,
     F_Score    |-> row.F_Score,
     M_Score    |-> row.M_Score,
     RFM_Score  |-> row.RFM_Score,
     Segment    |-> assign_segment(row)]

SegmentedTable(t) == [i \in 1..Len(t) |-> SegmentedRow(t[i])]

CreateSegments(scores) ==
    /\ op' = "create_segments"
    /\ IF ~scores.set
       THEN /\ raised' = "ValueError"
            /\ ret' = None
            /\ UNCHANGED segments
       ELSE /\ segments' = Some(SegmentedTable(scores.rows))
            /\ raised' = "none"
            /\ ret' = segments'
    /\ UNCHANGED <<metrics, n_quantiles, rfm_data, rfm_scores, clusters>>
    /\ UNCHANGED <<engine, processor, calls, written>>
    /\ UNCHANGED <<n_clusters, max_clusters, kmeans, optimal,
                   clustering_results>>

----------------------------------------------------------------------------
(* RFMCalculator._find_elbow_point and _find_optimal_clusters.             *)
(* Python lists are sequences; a 0-based index idx is position idx + 1.    *)

(* np.argmax: the 0-based index of the first occurrence of the maximum *)
ArgMaxLast(s) ==
    CHOOSE i \in 0..(Len(s) - 1) :
        /\ \A j \in 1..Len(s) : s[j] <= s[i + 1]
        /\ \A j \in (i + 2)..Len(s) : s[j] < s[i + 1]

ArgMax(s) ==
    CHOOSE i \in 0..(Len(s) - 1) :
        /\ \A j \in 1..Len(s) : s[j] <= s[i + 1]
        /\ \A j \in 1..i : s[j] < s[i + 1]

(* np.diff(inertias, n=2) *)
SecondDiff(s) ==
    [i \in 1..(Len(s) - 2) |-> s[i + 2] - 2 * s[i + 1] + s[i]]

find_elbow_point(inertias) ==
    IF Len(inertias) < 3 THEN 0 ELSE ArgMax(SecondDiff(inertias))

KRange(maxc) == 2..maxc

(* k_range = range(2, max_clusters + 1); KRangeAt(idx) is k_range[idx] *)
KRangeFromThree(idx) == 3 + idx

KRangeAt(idx) == 2 + idx

(* the silhouette-based k if it is close to the elbow, otherwise the elbow *)
CombineElbowOnly(best_silhouette_k, elbow_k) ==
    [set |-> TRUE,
     elbow_k |-> elbow_k,
     best_silhouette_k |-> best_silhouette_k,
     optimal_k |-> elbow_k,
     method |-> "elbow"]

Combine(best_silhouette_k, elbow_k) ==
    LET d == best_silhouette_k - elbow_k
        close == (IF d < 0 THEN -d ELSE d) <= 1
    IN  [set |-> TRUE,
         elbow_k |-> elbow_k,
         best_silhouette_k |-> best_silhouette_k,
         optimal_k |-> IF close THEN best_silhouette_k ELSE elbow_k,
         method |-> IF close THEN "silhouette" ELSE "elbow"]

NoOptimal ==
    [set |-> FALSE, elbow_k |-> 0, best_silhouette_k |-> 0, optimal_k |-> 0,
     method |-> ""]

----------------------------------------------------------------------------
(* The library calls of the clustering path on a table t.                  *)

(* np.log1p is finite above -1 (it is -inf at -1 and NaN below); the       *)
(* scaler and KMeans reject an array that holds an infinity or a NaN.      *)
Log1pFinite(x) == x > -1

AllFinite(t) ==
    \A i \in 1..Len(t) :
        Log1pFinite(t[i].Frequency) /\ Log1pFinite(t[i].Monetary)

(* log1p is strictly increasing and the scaler is affine in each column,   *)
(* so two customers are one feature point exactly when their (Recency,     *)
(* Frequency, Monetary) are equal.                                         *)
PointOf(row) == <<row.Recency, row.Frequency, row.Monetary>>

(* the feature points in the order of their first appearance, numbered     *)
(* from 0 *)
FirstOf(t, i) ==
    CHOOSE f \in 1..i :
        /\ PointOf(t[f]) = PointOf(t[i])
        /\ \A j \in 1..(f - 1) : PointOf(t[j]) # PointOf(t[i])

PointIndex(t, i) == Cardinality({PointOf(t[j]) : j \in 1..(FirstOf(t, i) - 1)})

DistinctPoints(t) == Cardinality({PointOf(t[j]) : j \in 1..Len(t)})

(* StandardScaler.fit_transform rejects an empty array *)
ScalerRaises(t) == Len(t) = 0 \/ ~AllFinite(t)

(* KMeans(n_clusters=k) needs 1 <= k <= n_samples *)
KMeansRaises(t, k) == k < 1 \/ k > Len(t)

(* fit_predict: labels in 0..k-1, equal points in one cluster, as many     *)
(* clusters as there are distinct points, up to k.  Which point gets which *)
(* label is the fit's: km[k].first is the label of the first point.        *)
KMeansLabelsFromOne(t, k, km) ==
    [i \in 1..Len(t) |-> ((PointIndex(t, i) + km[k].first) % k) + 1]

KMeansLabels(t, k, km) ==
    [i \in 1..Len(t) |-> (PointIndex(t, i) + km[k].first) % k]

LabelCount(labels) == Cardinality({labels[i] : i \in 1..Len(labels)})

(* silhouette_score needs 2 <= number of labels <= n_samples - 1 *)
SilhouetteRaises(labels) ==
    LabelCount(labels) < 2 \/ LabelCount(labels) > Len(labels) - 1

(* the candidates of the sweep for which the fit or the score raises *)
SweepRaises(t, maxc, km) ==
    \E k \in KRange(maxc) :
        KMeansRaises(t, k) \/ SilhouetteRaises(KMeansLabels(t, k, km))

find_optimal_clusters(maxc, km) ==
    LET inertias == [i \in 1..(maxc - 1) |-> km[i + 1].inertia]
        silhouette_scores == [i \in 1..(maxc - 1) |-> km[i + 1].silhouette]
        elbow_k == KRangeAt(find_elbow_point(inertias))
        best_silhouette_k == KRangeAt(ArgMax(silhouette_scores))
    IN  Combine(best_silhouette_k, elbow_k)

----------------------------------------------------------------------------
(* RFMCalculator.perform_clustering *)

NoResults ==
    [set |-> FALSE, n_clusters |-> 0, silhouette_score |-> 0, inertia |-> 0]

ClusteredRow(row, label) ==
    [CustomerID |-> row.CustomerID,
     Recency    |-> row.Recency,
     Frequency  |-> row.Frequency,
     Monetary   |-> row.Monetary,
     Cluster    |-> label]

ClusteredTable(t, labels) == [i \in 1..Len(t) |-> ClusteredRow(t[i], labels[i])]

ClusteringFails ==
    /\ raised' = "ValueError"
    /\ ret' = None
    /\ clustering_results' = NoResults
    /\ UNCHANGED clusters

PerformClustering(t, nc, maxc, km) ==
    /\ op' = "perform_clustering"
    /\ IF ScalerRaises(t)
       THEN ClusteringFails /\ UNCHANGED optimal
       ELSE IF ~nc.set /\ SweepRaises(t, maxc, km)
       THEN ClusteringFails /\ UNCHANGED optimal
       ELSE /\ optimal' = IF nc.set THEN optimal
                          ELSE find_optimal_clusters(maxc, km)
            /\ LET k == IF nc.set THEN nc.val ELSE optimal'.optimal_k
               IN  IF KMeansRaises(t, k)
                   THEN ClusteringFails
                   ELSE IF SilhouetteRaises(KMeansLabels(t, k, km))
                   THEN ClusteringFails
                   ELSE /\ clusters' =
                             Some(ClusteredTable(t, KMeansLabels(t, k, km)))
                        /\ clustering_results' =
                             [set |-> TRUE,
                              n_clusters |-> k,
                              silhouette_score |-> km[k].silhouette,
                              inertia |-> km[k].inertia]
                        /\ ret' = clusters'
                        /\ raised' = "none"
    /\ UNCHANGED <<metrics, n_quantiles, rfm_data, rfm_scores, segments>>
    /\ UNCHANGED <<n_clusters, max_clusters, kmeans>>
    /\ UNCHANGED <<engine, processor, calls, written>>

----------------------------------------------------------------------------
(* RFMCalculator.get_segment_analysis and get_cluster_analysis.            *)
(* Means, standard deviations and percentages are decimal numbers: a mean  *)
(* or a deviation is kept in hundredths and a percentage in tenths, each   *)
(* rounded from the exact value (round half to even, as numpy does).       *)

(* the nearest integer to num / den, den > 0 *)
RoundDiv(num, den) ==
    LET q == (2 * num + den) \div (2 * den)
    IN  IF (2 * num + den) % (2 * den) = 0 /\ q % 2 = 1 THEN q - 1 ELSE q

RECURSIVE SumOf(_)
SumOf(s) == IF Len(s) = 0 THEN 0 ELSE s[1] + SumOf(Tail(s))

(* the largest r in lo..hi with r * r <= x *)
RECURSIVE RootBetween(_, _, _)
RootBetween(x, lo, hi) ==
    IF lo = hi THEN lo
    ELSE LET mid == (lo + hi + 1) \div 2
         IN  IF mid <= x \div mid THEN RootBetween(x, mid, hi)
             ELSE RootBetween(x, lo, mid - 1)

(* round(mean, 2) in hundredths *)
MeanOf(vals) == RoundDiv(100 * SumOf(vals), Len(vals))

(* round(std, 2) in hundredths, std the sample deviation (ddof = 1),       *)
(* which is NaN for a group of one *)
StdOf(vals) ==
    IF Len(vals) < 2 THEN "NaN"
    ELSE LET n == Len(vals)
             a == n * SumOf([i \in 1..n |-> vals[i] * vals[i]])
                    - SumOf(vals) * SumOf(vals)
             x == (40000 * a) \div (n * (n - 1))
         IN  (RootBetween(x, 0, x) + 1) \div 2

(* (count / total * 100).round(1) in tenths *)
PercentageInWholePoints(count, total) == 10 * ((100 * count) \div total)

Percentage(count, total) == RoundDiv(1000 * count, total)

(* groupby sorts the groups by key *)
SegmentOrder ==
    <<"About to Sleep", "At Risk", "Cannot Lose Them", "Champions",
      "Hibernating", "Lost", "Loyal Customers", "Need Attention",
      "New Customers", "Potential Loyalist", "Promising">>

InGroupOfAll(t, name, key) == t

InGroup(t, name, key) == SelectSeq(t, LAMBDA row : row[name] = key)

KeysPresent(t, name, order) ==
    SelectSeq(order, LAMBDA key : \E i \in 1..Len(t) : t[i][name] = key)

SegmentSummary(t, key) ==
    LET g == InGroup(t, "Segment", key)
    IN  [Segment          |-> key,
         Recency_mean     |-> MeanOf(Column(g, "Recency")),
         Recency_std      |-> StdOf(Column(g, "Recency")),
         Frequency_mean   |-> MeanOf(Column(g, "Frequency")),
         Frequency_std    |-> StdOf(Column(g, "Frequency")),
         Monetary_mean    |-> MeanOf(Column(g, "Monetary")),
         Monetary_std     |-> StdOf(Column(g, "Monetary")),
         CustomerID_count |-> Len(g),
         Percentage       |-> Percentage(Len(g), Len(t))]

ClusterSummary(t, key) ==
    LET g == InGroup(t, "Cluster", key)
    IN  [Cluster          |-> key,
         Recency_mean     |-> MeanOf(Column(g, "Recency")),
         Recency_std      |-> StdOf(Column(g, "Recency")),
         Frequency_mean   |-> MeanOf(Column(g, "Frequency")),
         Frequency_std    |-> StdOf(Column(g, "Frequency")),
         Monetary_mean    |-> MeanOf(Column(g, "Monetary")),
         Monetary_std     |-> StdOf(Column(g, "Monetary")),
         CustomerID_count |-> Len(g),
         Percentage       |-> Percentage(Len(g), Len(t))]

SegmentAnalysisOf(t) ==
    LET keys == KeysPresent(t, "Segment", SegmentOrder)
    IN  [j \in 1..Len(keys) |-> SegmentSummary(t, keys[j])]

ClusterAnalysisOf(t) ==
    LET keys == KeysPresent(t, "Cluster", [k \in 1..Len(t) |-> k - 1])
    IN  [j \in 1..Len(keys) |-> ClusterSummary(t, keys[j])]

GetSegmentAnalysis ==
    /\ op' = "get_segment_analysis"
    /\ IF ~segments.set
       THEN raised' = "ValueError" /\ ret' = None
       ELSE raised' = "none" /\ ret' = Some(SegmentAnalysisOf(segments.rows))
    /\ UNCHANGED <<metrics, n_quantiles, rfm_data, rfm_scores, segments,
                   clusters, n_clusters, max_clusters, kmeans, optimal,
                   clustering_results>>
    /\ UNCHANGED <<engine, processor, calls, written>>

GetClusterAnalysis ==
    /\ op' = "get_cluster_analysis"
    /\ IF ~clusters.set
       THEN raised' = "ValueError" /\ ret' = None
       ELSE raised' = "none" /\ ret' = Some(ClusterAnalysisOf(clusters.rows))
    /\ UNCHANGED <<metrics, n_quantiles, rfm_data, rfm_scores, segments,
                   clusters, n_clusters, max_clusters, kmeans, optimal,
                   clustering_results>>
    /\ UNCHANGED <<engine, processor, calls, written>>

----------------------------------------------------------------------------
(* The calculator after __init__ *)

InitCalculator ==
    /\ rfm_data = None
    /\ rfm_scores = None
    /\ segments = None
    /\ clusters = None
    /\ ret = None
    /\ raised = "none"
    /\ op = "init"
    /\ optimal = NoOptimal
    /\ clustering_results = NoResults

(* The engine after __init__: no result yet, a DataProcessor that has *)
(* loaded nothing, nothing written, and no call in progress *)
NoFields ==
    [raw_data |-> None, processed_data |-> None, rfm_data |-> None,
     rfm_scores |-> None, segments |-> None, clusters |-> None,
     strategies |-> None]

NoProcessorFields ==
    [raw_data |-> None, processed_data |-> None, analysis_date |-> NoneInt]

NothingWritten == [report |-> None]

InitEngine ==
    /\ engine = NoFields
    /\ processor = NoProcessorFields
    /\ calls = <<>>
    /\ written = NothingWritten

(* A caller that passes no clustering arguments *)
DefaultClustering ==
    /\ n_clusters = NoneInt
    /\ max_clusters = DefaultMaxClusters
    /\ kmeans = <<>>

(* Metrics tables: CustomerID is the (unique) position of the customer.    *)

MetricRow(id, rec, freq, mon) ==
    [CustomerID |-> id, Recency |-> rec, Frequency |-> freq, Monetary |-> mon]

(* Every table of up to MaxRecords customers over two values per column.   *)

RecencyDays == {0, 1}

PurchaseCounts == {1, 2}

SpendAmounts == {0, 1}

RawRecords ==
    [Recency : RecencyDays, Frequency : PurchaseCounts, Monetary : SpendAmounts]

WithIds(t) ==
    [i \in 1..Len(t) |->
        MetricRow(i, t[i].Recency, t[i].Frequency, t[i].Monetary)]

MetricTables ==
    UNION {{WithIds(t) : t \in [1..n -> RawRecords]} : n \in 0..MaxRecords}

(* Evenly spread tables: n customers whose Recency, Frequency and Monetary *)
(* step through the residues of n with a stride (a stride coprime to n     *)
(* gives n distinct values in a shuffled order, stride 0 gives one value   *)
(* for all customers, any other stride gives repeated values).             *)

SpreadTable(n, a, b, c, d) ==
    [i \in 1..n |->
        MetricRow(i, ((a * i + b) % n) + 1, ((c * i) % n) + 1, (d * i) % n)]

----------------------------------------------------------------------------
(* Scoring and segmentation of one metrics table, as the engine drives it  *)
(* (engine.py, calculate_rfm_analysis): scores of the table, then segments *)
(* of the calculator's scores.  The table is any small table, scored on a  *)
(* scale of up to MaxRecords + 2 levels, or a spread table of up to        *)
(* MaxCustomers customers, scored on a scale of up to MaxQuantiles levels  *)
(* (from 10 levels on a score has two digits).                             *)

SpreadTables ==
    {SpreadTable(n, a, 0, c, d) :
        n \in 0..MaxCustomers, a \in 1..MaxStride,
        c \in 0..MaxStride, d \in 0..MaxStride}

Init ==
    /\ \/ /\ metrics \in MetricTables
          /\ n_quantiles \in 2..(MaxRecords + 2)
       \/ /\ metrics \in SpreadTables
          /\ n_quantiles \in 2..MaxQuantiles
    /\ DefaultClustering
    /\ InitCalculator
    /\ InitEngine

Score == CalculateRfmScores(metrics, n_quantiles)

SegmentUnlessClustered ==
    CreateSegments(IF clusters.set THEN None ELSE rfm_scores)

Segment == CreateSegments(rfm_scores)

Next == Score \/ Segment

Spec == Init /\ [][Next]_vars

----------------------------------------------------------------------------
(* The segment classifier on its own: create_segments called, any number   *)
(* of times, with tables of records scored on the 1..5 scale.  A table     *)
(* holds up to MaxSegRecords customers that share one score triple and     *)
(* differ in CustomerID and raw values.                                    *)

ScoreLevels == 1..5

SegRow(id, r, f, m) ==
    [CustomerID |-> id,
     Recency    |-> id - 1,
     Frequency  |-> id,
     Monetary   |-> id - 1,
     R_Score    |-> r,
     F_Score    |-> f,
     M_Score    |-> m,
     RFM_Score  |-> RFMScoreOf(r, f, m)]

ScoreTables ==
    {[i \in 1..n |-> SegRow(i, r, f, m)] :
        n \in 1..MaxSegRecords,
        r \in ScoreLevels, f \in ScoreLevels, m \in ScoreLevels}

InitSeg ==
    /\ metrics = <<>>
    /\ n_quantiles = DefaultQuantiles
    /\ DefaultClustering
    /\ InitCalculator
    /\ InitEngine

SegmentTable == \E t \in ScoreTables : CreateSegments(Some(t))

NextSeg == SegmentTable

SpecSeg == InitSeg /\ [][NextSeg]_vars

----------------------------------------------------------------------------
(* Scoring of larger spread tables, of up to MaxSpread customers with one  *)
(* order for Frequency and Monetary, on the scales up to the default.      *)

LargeSpreadTables ==
    {SpreadTable(n, a, b, c, c) :
        n \in 2..MaxSpread, a \in 1..MaxStride,
        b \in 0..MaxStride, c \in 0..MaxStride}

InitSpread ==
    /\ metrics \in LargeSpreadTables
    /\ n_quantiles \in 2..DefaultQuantiles
    /\ DefaultClustering
    /\ InitCalculator
    /\ InitEngine

SpecSpread == InitSpread /\ [][Next]_vars

----------------------------------------------------------------------------
(* The cluster-count optimizer on its own: perform_clustering without a    *)
(* cluster count, on a table with more distinct customers than any         *)
(* candidate count, for every max_clusters from 2 to MaxClusters and every *)
(* inertia and silhouette value of the candidates.                         *)

InertiaLevels == {0, 1, 3}

SilhouetteLevels == {0, 1}

Fit(inertia, silhouette, first) ==
    [inertia |-> inertia, silhouette |-> silhouette, first |-> first]

(* the fits of the candidates 2..maxc vary, the other counts have one fit *)
Sweeps(maxc, top) ==
    {[k \in 1..top |-> IF k \in KRange(maxc) THEN f[k] ELSE Fit(0, 0, 0)] :
        f \in [KRange(maxc) ->
                 {Fit(i, s, 0) : i \in InertiaLevels, s \in SilhouetteLevels}]}

InitOpt ==
    /\ metrics = SpreadTable(MaxClusters + 2, 1, 0, 1, 1)
    /\ n_quantiles = DefaultQuantiles
    /\ n_clusters = NoneInt
    /\ max_clusters \in 2..MaxClusters
    /\ kmeans \in Sweeps(max_clusters, MaxClusters + 1)
    /\ InitCalculator
    /\ InitEngine

Cluster == PerformClustering(metrics, n_clusters, max_clusters, kmeans)

NextOpt == Cluster

SpecOpt == InitOpt /\ [][NextOpt]_vars

----------------------------------------------------------------------------
(* The whole calculator on one metrics table: scoring, segmentation,       *)
(* clustering and the two reports, called in any order.  The table is a    *)
(* spread table of up to MaxPoints customers with one stride for the three *)
(* columns (stride 0: one feature point, stride 2: repeated points), or    *)
(* such a table with one column lowered so that it holds values the data   *)
(* preparation can produce from returns, a late analysis date or missing   *)
(* invoice numbers: a negative Recency, a zero Frequency or a negative     *)
(* Monetary.                                                               *)

Lowered(t, name) ==
    [i \in 1..Len(t) |->
        MetricRow(t[i].CustomerID,
                  IF name = "Recency" THEN t[i].Recency - 2 ELSE t[i].Recency,
                  IF name = "Frequency" THEN t[i].Frequency - 1
                  ELSE t[i].Frequency,
                  IF name = "Monetary" THEN t[i].Monetary - 1
                  ELSE t[i].Monetary)]

CalcTables ==
    {SpreadTable(n, s, 0, s, s) : n \in 0..MaxPoints, s \in {0, 1, 2}}
    \cup {Lowered(SpreadTable(n, 1, 0, 1, 1), name) :
            n \in 0..MaxPoints, name \in {"Recency", "Frequency", "Monetary"}}

(* one fit per cluster count: the inertia falls with the count, three      *)
(* clusters separate best; the fits differ in the label of the first point *)
CalcFits ==
    {[k \in 1..(MaxClusters + 1) |->
        Fit(MaxClusters + 1 - k, IF k = 3 THEN 1 ELSE 0, first)] :
        first \in {0, 1}}

InitCalc ==
    /\ metrics \in CalcTables
    /\ n_quantiles = DefaultQuantiles
    /\ \/ /\ n_clusters = NoneInt
          /\ max_clusters \in 2..MaxClusters
       \/ /\ n_clusters \in {SomeInt(k) : k \in 1..MaxClusters}
          /\ max_clusters = DefaultMaxClusters
    /\ kmeans \in CalcFits
    /\ InitCalculator
    /\ InitEngine

NextCalc ==
    \/ Score
    \/ Segment
    \/ Cluster
    \/ GetSegmentAnalysis
    \/ GetClusterAnalysis

SpecCalc == InitCalc /\ [][NextCalc]_vars

----------------------------------------------------------------------------
(* DataProcessor (src/src/core/data_processor.py).                         *)
(*                                                                         *)
(* A CSV file is a record [exists, rows]; a row holds the text of its      *)
(* cells.  A cell of the InvoiceDate or Amount column is a record          *)
(* [set, val]: the day or the amount the text parses to, or a text that    *)
(* does not parse (set = FALSE).  Dates are day numbers.                   *)

RequiredColumns == {"CustomerID", "InvoiceDate", "Amount"}

MissingColumns(rows) ==
    {col \in RequiredColumns : \E i \in 1..Len(rows) : col \notin DOMAIN rows[i]}

(* pd.to_datetime / pd.to_numeric with errors='coerce', then the rows with *)
(* a NaT or a NaN dropped: the rows that are left hold the parsed values   *)
Parsed(row) ==
    [CustomerID  |-> row.CustomerID,
     InvoiceNo   |-> row.InvoiceNo,
     InvoiceDate |-> row.InvoiceDate.val,
     Amount      |-> row.Amount.val]

(* DataFrame.drop_duplicates: the first of each run of equal rows is kept *)
DropDuplicates(rows) ==
    LET kept == {i \in 1..Len(rows) : \A j \in 1..(i - 1) : rows[j] # rows[i]}
        Nth(k) == CHOOSE i \in kept : Cardinality({j \in kept : j <= i}) = k
    IN  [k \in 1..Cardinality(kept) |-> rows[Nth(k)]]

CleanedRows(rows) ==
    LET valid_dates == SelectSeq(rows, LAMBDA row : row.InvoiceDate.set)
        valid_amounts == SelectSeq(valid_dates, LAMBDA row : row.Amount.set)
        parsed == [i \in 1..Len(valid_amounts) |-> Parsed(valid_amounts[i])]
        non_negative == SelectSeq(parsed, LAMBDA row : ~(row.Amount < 0))
    IN  DropDuplicates(non_negative)

MaxOf(S) == CHOOSE x \in S : \A y \in S : y <= x

(* the day after the latest transaction *)
DefaultAnalysisDate(rows) ==
    MaxOf({rows[i].InvoiceDate : i \in 1..Len(rows)}) + 1

(* groupby('CustomerID').agg: one row per customer in the order of the     *)
(* customer ids, the latest InvoiceDate, the number of distinct InvoiceNo  *)
(* and the sum of Amount; Recency is the days from the latest purchase to  *)
(* the analysis date                                                       *)
CustomerIds(rows) == {rows[i].CustomerID : i \in 1..Len(rows)}

NthCustomer(rows, k) ==
    CHOOSE c \in CustomerIds(rows) :
        Cardinality({d \in CustomerIds(rows) : d <= c}) = k

RfmRow(rows, c, date) ==
    LET g == InGroup(rows, "CustomerID", c)
    IN  MetricRow(c,
                  date - MaxOf({g[i].InvoiceDate : i \in 1..Len(g)}),
                  Cardinality({g[i].InvoiceNo : i \in 1..Len(g)}),
                  SumOf(Column(g, "Amount")))

RfmTable(rows, date) ==
    [k \in 1..Cardinality(CustomerIds(rows)) |->
        RfmRow(rows, NthCustomer(rows, k), date)]

----------------------------------------------------------------------------
(* The engine and what it owns (src/src/engine.py): its DataProcessor, its *)
(* RFMCalculator, its MarketingStrategyGenerator and its plotter.  A       *)
(* method is a function from the fields it finds to the fields it leaves,  *)
(* with the value it returns or the exception it raises; a method that     *)
(* calls another one continues from what the other one left, and stops at  *)
(* the first exception.  A returned value that is not a table (a date, a   *)
(* path, a dictionary) is kept as a table of one row.                      *)

Current ==
    [processor          |-> processor,
     engine             |-> engine,
     rfm_data           |-> rfm_data,
     rfm_scores         |-> rfm_scores,
     segments           |-> segments,
     clusters           |-> clusters,
     optimal            |-> optimal,
     clustering_results |-> clustering_results,
     written            |-> written,
     raised             |-> "none",
     ret                |-> None]

Raising(w, error) == [w EXCEPT !.raised = error, !.ret = None]

Returning(w, value) == [w EXCEPT !.raised = "none", !.ret = value]

(* the body on a value that is worked out once *)
Bind(value, Body(_)) == CHOOSE result \in {Body(x) : x \in {value}} : TRUE

(* the next step of a method, taken from what the steps so far left unless *)
(* one of them raised                                                      *)
Then(w, Step(_)) ==
    Bind(w, LAMBDA x : IF x.raised # "none" THEN x ELSE Step(x))

(* a call of the method name that leaves w; the caller's arguments and the *)
(* library stay what they are                                              *)
Becomes(name, w) ==
    \E x \in {w} :
        /\ op' = name
        /\ processor' = x.processor
        /\ engine' = x.engine
        /\ rfm_data' = x.rfm_data
        /\ rfm_scores' = x.rfm_scores
        /\ segments' = x.segments
        /\ clusters' = x.clusters
        /\ optimal' = x.optimal
        /\ clustering_results' = x.clustering_results
        /\ written' = x.written
        /\ raised' = x.raised
        /\ ret' = x.ret
        /\ UNCHANGED <<metrics, n_quantiles, n_clusters, max_clusters, kmeans,
                       calls>>

(* DataProcessor.load_data: read_csv fails on a file that is not there;    *)
(* the columns are validated after raw_data has been assigned              *)
load_data(w, file) ==
    IF ~file.exists THEN Raising(w, "FileNotFoundError")
    ELSE LET read == [w EXCEPT !.processor.raw_data = Some(file.rows)]
         IN  IF MissingColumns(file.rows) # {}
             THEN Raising(read, "ValueError")
             ELSE Returning(read, read.processor.raw_data)

(* DataProcessor.clean_data with its default arguments; a column that is   *)
(* not there is a KeyError                                                 *)
clean_data(w) ==
    IF ~w.processor.raw_data.set THEN Raising(w, "ValueError")
    ELSE IF MissingColumns(w.processor.raw_data.rows) # {}
    THEN Raising(w, "KeyError")
    ELSE Bind(Some(CleanedRows(w.processor.raw_data.rows)),
              LAMBDA data :
                  Returning([w EXCEPT !.processor.processed_data = data], data))

set_analysis_date(w, analysis_date) ==
    IF ~w.processor.processed_data.set THEN Raising(w, "ValueError")
    ELSE LET date ==
                 IF analysis_date.set THEN analysis_date
                 ELSE SomeInt(DefaultAnalysisDate(
                                  w.processor.processed_data.rows))
         IN  Returning([w EXCEPT !.processor.analysis_date = date],
                       Some(<<[analysis_date |-> date.val]>>))

prepare_rfm_data(w) ==
    IF ~w.processor.processed_data.set THEN Raising(w, "ValueError")
    ELSE Bind(IF w.processor.analysis_date.set THEN w
              ELSE set_analysis_date(w, NoneInt),
              LAMBDA dated :
                  Returning(dated,
                            Some(RfmTable(dated.processor.processed_data.rows,
                                          dated.processor.analysis_date.val))))

LoadData(file) == Becomes("load_data", load_data(Current, file))

CleanData == Becomes("clean_data", clean_data(Current))

SetAnalysisDate(analysis_date) ==
    Becomes("set_analysis_date", set_analysis_date(Current, analysis_date))

PrepareRfmData == Becomes("prepare_rfm_data", prepare_rfm_data(Current))

(* RFMCalculator.calculate_rfm_scores, create_segments, perform_clustering *)
(* and get_segment_analysis as the engine calls them                       *)
calculate_rfm_scores(w, t, q) ==
    IF QcutRaises(Len(t), q)
    THEN Raising([w EXCEPT !.rfm_data = Some(t)], "ValueError")
    ELSE Bind(Some(ScoredTable(t, q)),
              LAMBDA scores :
                  Returning([w EXCEPT !.rfm_data = scores,
                                      !.rfm_scores = scores],
                            scores))

create_segments_not_stored(w, scores) ==
    IF ~scores.set THEN Raising(w, "ValueError")
    ELSE Returning(w, Some(SegmentedTable(scores.rows)))

create_segments(w, scores) ==
    IF ~scores.set THEN Raising(w, "ValueError")
    ELSE Bind(Some(SegmentedTable(scores.rows)),
              LAMBDA data : Returning([w EXCEPT !.segments = data], data))

perform_clustering(w, t, nc, maxc, km) ==
    LET failed == [w EXCEPT !.clustering_results = NoResults]
    IN  IF ScalerRaises(t) THEN Raising(failed, "ValueError")
        ELSE IF ~nc.set /\ SweepRaises(t, maxc, km)
        THEN Raising(failed, "ValueError")
        ELSE Bind(IF nc.set THEN w.optimal
                  ELSE find_optimal_clusters(maxc, km),
                  LAMBDA found :
                      LET k == IF nc.set THEN nc.val ELSE found.optimal_k
                      IN  IF KMeansRaises(t, k)
                          THEN Raising([failed EXCEPT !.optimal = found],
                                       "ValueError")
                          ELSE IF SilhouetteRaises(KMeansLabels(t, k, km))
                          THEN Raising([failed EXCEPT !.optimal = found],
                                       "ValueError")
                          ELSE Bind(Some(ClusteredTable(
                                             t, KMeansLabels(t, k, km))),
                                    LAMBDA data :
                                        Returning(
                                            [w EXCEPT
                                                !.optimal = found,
                                                !.clusters = data,
                                                !.clustering_results =
                                                    [set |-> TRUE,
                                                     n_clusters |-> k,
                                                     silhouette_score |->
                                                         km[k].silhouette,
                                                     inertia |->
                                                         km[k].inertia]],
                                            data)))

get_segment_analysis(w) ==
    IF ~w.segments.set THEN Raising(w, "ValueError")
    ELSE Returning(w, Some(SegmentAnalysisOf(w.segments.rows)))

(* MarketingStrategyGenerator: the segments that have a default strategy,  *)
(* with the share of the budget of each, in hundredths                     *)
Strategies ==
    [segment \in {"Champions", "Loyal Customers", "Potential Loyalist",
                  "New Customers", "At Risk", "Lost", "Promising",
                  "Need Attention"} |->
        CASE segment = "Champions"          -> 25
          [] segment = "Loyal Customers"    -> 20
          [] segment = "Potential Loyalist" -> 20
          [] segment = "New Customers"      -> 15
          [] segment = "At Risk"            -> 10
          [] segment = "Lost"               -> 5
          [] segment = "Promising"          -> 3
          [] segment = "Need Attention"     -> 2]

(* one row per strategy (its texts left out), in the order in which the    *)
(* segments first appear in the table                                      *)
StrategyRow(t, segment) ==
    LET segment_count == Len(InGroup(t, "Segment", segment))
    IN  [Segment           |-> segment,
         Customer_Count    |-> segment_count,
         Percentage        |-> RoundDiv(1000 * segment_count, Len(t)),
         Budget_Allocation |-> Strategies[segment],
         Priority          |-> IF 10 * segment_count > Len(t) THEN "High"
                               ELSE "Medium"]

generate_strategies_for_segments(t) ==
    LET unique == DropDuplicates(Column(t, "Segment"))
        known == SelectSeq(unique, LAMBDA segment : segment \in DOMAIN Strategies)
    IN  [j \in 1..Len(known) |-> StrategyRow(t, known[j])]

(* RFMInsightEngine *)
load_and_process_data_resetting(w, file) ==
    Then(load_data(w, file),
         LAMBDA loaded :
             Bind(prepare_rfm_data(clean_data(loaded)),
                  LAMBDA prepared :
                      [prepared EXCEPT
                          !.engine =
                              [NoFields EXCEPT
                                  !.raw_data = loaded.ret,
                                  !.processed_data =
                                      prepared.processor.processed_data,
                                  !.rfm_data = prepared.ret]]))

load_and_process_data(w, file) ==
    LET loaded == load_data(w, file)
        cleaned ==
            Then(loaded,
                 LAMBDA x : clean_data([x EXCEPT !.engine.raw_data = x.ret]))
        dated ==
            Then(cleaned,
                 LAMBDA x :
                     set_analysis_date(
                         [x EXCEPT !.engine.processed_data = x.ret], NoneInt))
        prepared == Then(dated, LAMBDA x : prepare_rfm_data(x))
    IN  Then(prepared, LAMBDA x : [x EXCEPT !.engine.rfm_data = x.ret])

calculate_rfm_analysis_unchecked(w, q) ==
    Then(calculate_rfm_scores(w, w.engine.rfm_data.rows, q),
         LAMBDA x :
             [create_segments(x, x.ret) EXCEPT
                 !.engine.rfm_scores = x.ret,
                 !.engine.segments = Some(SegmentedTable(x.ret.rows))])

calculate_rfm_analysis(w, q) ==
    IF ~w.engine.rfm_data.set THEN Raising(w, "ValueError")
    ELSE LET scored == calculate_rfm_scores(w, w.engine.rfm_data.rows, q)
             segmented ==
                 Then(scored,
                      LAMBDA x :
                          create_segments(
                              [x EXCEPT !.engine.rfm_scores = x.ret], x.ret))
         IN  Then(segmented, LAMBDA x : [x EXCEPT !.engine.segments = x.ret])

perform_clustering_analysis(w, nc, maxc, km) ==
    IF ~w.engine.rfm_data.set THEN Raising(w, "ValueError")
    ELSE Then(perform_clustering(w, w.engine.rfm_data.rows, nc, maxc, km),
              LAMBDA x : [x EXCEPT !.engine.clusters = x.ret])

generate_marketing_strategies(w) ==
    IF ~w.engine.segments.set THEN Raising(w, "ValueError")
    ELSE Bind(Some(generate_strategies_for_segments(w.engine.segments.rows)),
              LAMBDA strategies :
                  Returning([w EXCEPT !.engine.strategies = strategies],
                            strategies))

(* the plots are drawn from the engine's rfm_data, segments and clusters, *)
(* which the plotter leaves as they are; the plots are not kept           *)
create_visualizations(w, include_clusters) ==
    IF ~w.engine.rfm_data.set \/ ~w.engine.segments.set
    THEN Raising(w, "ValueError")
    ELSE Returning(w, None)

(* the report holds the calculator's segment analysis and the number of    *)
(* customers of the engine's segments                                      *)
generate_report(w) ==
    IF ~w.engine.segments.set THEN Raising(w, "ValueError")
    ELSE Then(get_segment_analysis(w),
              LAMBDA x :
                  Returning(
                      [x EXCEPT !.written.report =
                          Some(<<[segment_analysis |-> x.ret.rows,
                                  customers |-> Len(x.engine.segments.rows)]>>)],
                      Some(<<[report_path |->
                                  "rfm_comprehensive_report.html"]>>)))

run_complete_analysis(w, file, include_clustering, km) ==
    LET loaded == load_and_process_data(w, file)
        analysed ==
            Then(loaded, LAMBDA x : calculate_rfm_analysis(x, DefaultQuantiles))
        clustered ==
            Then(analysed,
                 LAMBDA x :
                     IF include_clustering
                     THEN perform_clustering_analysis(
                              x, NoneInt, DefaultMaxClusters, km)
                     ELSE x)
        planned == Then(clustered, LAMBDA x : generate_marketing_strategies(x))
        drawn ==
            Then(planned,
                 LAMBDA x : create_visualizations(x, include_clustering))
        reported == Then(drawn, LAMBDA x : generate_report(x))
    IN  Then(reported,
             LAMBDA x :
                 Returning(
                     x,
                     Some(<<[rfm_data    |-> x.engine.rfm_data,
                             rfm_scores  |-> x.engine.rfm_scores,
                             segments    |-> x.engine.segments,
                             clusters    |-> IF include_clustering
                                             THEN x.engine.clusters
                                             ELSE None,
                             strategies  |-> x.engine.strategies,
                             report_path |-> x.ret.rows[1].report_path]>>)))

LoadAndProcessData(file) ==
    Becomes("load_and_process_data", load_and_process_data(Current, file))

CalculateRfmAnalysis ==
    Becomes("calculate_rfm_analysis",
            calculate_rfm_analysis(Current, n_quantiles))

PerformClusteringAnalysis ==
    Becomes("perform_clustering_analysis",
            perform_clustering_analysis(Current, n_clusters, max_clusters,
                                        kmeans))

GenerateMarketingStrategies ==
    Becomes("generate_marketing_strategies",
            generate_marketing_strategies(Current))

CreateVisualizations(include_clusters) ==
    Becomes("create_visualizations",
            create_visualizations(Current, include_clusters))

GenerateReport == Becomes("generate_report", generate_report(Current))

RunCompleteAnalysis(file, include_clustering) ==
    Becomes("run_complete_analysis",
            run_complete_analysis(Current, file, include_clustering, kmeans))

----------------------------------------------------------------------------
(* The engine run on transaction files.  The file of a metrics table holds *)
(* what its customers bought: the customers from the last to the first,    *)
(* for each customer as many invoices as its Frequency, the latest one on  *)
(* the day that lies its Recency before the day after LastDay and worth    *)
(* its Monetary, the earlier ones a day apart and worth nothing; then a    *)
(* row with a date that does not parse, a row with an amount that does not *)
(* parse, a refund and a repeated row.  Every file has a row that cleaning *)
(* keeps.                                                                  *)

LastDay == 2 * MaxPoints + 2

Reverse(s) == [i \in 1..Len(s) |-> s[Len(s) + 1 - i]]

Invoices(row) ==
    [j \in 1..row.Frequency |->
        [CustomerID  |-> row.CustomerID,
         InvoiceNo   |-> <<row.CustomerID, j>>,
         InvoiceDate |-> SomeInt(LastDay + 1 - row.Recency - (j - 1)),
         Amount      |-> SomeInt(IF j = 1 THEN row.Monetary ELSE 0)]]

RECURSIVE Transactions(_)
Transactions(t) ==
    IF Len(t) = 0 THEN <<>> ELSE Invoices(Head(t)) \o Transactions(Tail(t))

Damaged(rows) ==
    rows \o
    <<[rows[1] EXCEPT !.InvoiceNo = <<0, 1>>, !.InvoiceDate = NoneInt],
      [rows[1] EXCEPT !.InvoiceNo = <<0, 2>>, !.Amount = NoneInt],
      [rows[1] EXCEPT !.InvoiceNo = <<0, 3>>, !.Amount = SomeInt(-1)],
      rows[1]>>

DataFile(t) == [exists |-> TRUE, rows |-> Damaged(Transactions(Reverse(t)))]

NoFile == [exists |-> FALSE, rows |-> <<>>]

FileWithoutAmount ==
    [exists |-> TRUE,
     rows |-> <<[CustomerID |-> 1, InvoiceNo |-> <<1, 1>>,
                 InvoiceDate |-> SomeInt(LastDay)]>>]

(* one customer; customers that buy the more the longer ago they bought;   *)
(* customers that buy the more the more recently they bought               *)
DataSets ==
    {SpreadTable(1, 1, 0, 1, 1),
     SpreadTable(MaxPoints - 1, 1, 0, 1, 1),
     SpreadTable(MaxPoints, MaxPoints - 1, 0, 1, 1)}

Files == {DataFile(t) : t \in DataSets} \cup {NoFile}

InitRun ==
    /\ metrics = <<>>
    /\ n_quantiles = DefaultQuantiles
    /\ n_clusters = NoneInt
    /\ max_clusters = MaxClusters - 1
    /\ kmeans \in {fits \in CalcFits : fits[1].first = 0}
    /\ InitCalculator
    /\ InitEngine

NextRun ==
    \/ \E file \in Files : LoadAndProcessData(file)
    \/ CalculateRfmAnalysis
    \/ PerformClusteringAnalysis
    \/ GenerateMarketingStrategies
    \/ \E include_clusters \in BOOLEAN : CreateVisualizations(include_clusters)
    \/ GenerateReport
    \/ \E file \in Files, include_clustering \in BOOLEAN :
           RunCompleteAnalysis(file, include_clustering)

SpecRun == InitRun /\ [][NextRun]_vars

----------------------------------------------------------------------------
(* The steps called one by one, in any order: the methods of the engine,   *)
(* of its DataProcessor and of its calculator, on one data file, a missing *)
(* file and a file without the Amount column.                              *)

StepFiles ==
    {DataFile(SpreadTable(MaxPoints - 1, 1, 0, 1, 1)), NoFile,
     FileWithoutAmount}

AnalysisDates == {NoneInt, SomeInt(LastDay + 2)}

InitSteps == InitRun

NextSteps ==
    \/ \E file \in StepFiles : LoadData(file)
    \/ CleanData
    \/ \E analysis_date \in AnalysisDates : SetAnalysisDate(analysis_date)
    \/ PrepareRfmData
    \/ \E file \in StepFiles : LoadAndProcessData(file)
    \/ CalculateRfmAnalysis
    \/ PerformClusteringAnalysis
    \/ GenerateMarketingStrategies
    \/ \E include_clusters \in BOOLEAN : CreateVisualizations(include_clusters)
    \/ GenerateReport
    \/ Segment
    \/ GetSegmentAnalysis
    \/ GetClusterAnalysis

SpecSteps == InitSteps /\ [][NextSteps]_vars

----------------------------------------------------------------------------
(* Two calculate_rfm_scores calls in progress on one calculator, each on   *)
(* its own metrics table, taking turns statement by statement              *)
(* (rfm_calculator.py:39-74).  The method works in self.rfm_data: a        *)
(* statement reads the columns it needs from the field and assigns a       *)
(* column of the field, and a column that is not there is a KeyError.      *)

HasColumn(t, name) == \A i \in 1..Len(t) : name \in DOMAIN t[i]

WithColumn(t, name, col) ==
    [i \in 1..Len(t) |->
        [c \in DOMAIN t[i] \cup {name} |->
            IF c = name THEN col[i] ELSE t[i][c]]]

Statements ==
    <<"copy", "R_Score", "reverse", "F_Score", "M_Score", "RFM_Score",
      "store", "return">>

After(statement) ==
    IF statement = "return" THEN "done"
    ELSE Statements[1 + CHOOSE k \in 1..Len(Statements) :
                            Statements[k] = statement]

Proceed(c) == calls' = [calls EXCEPT ![c].pc = After(calls[c].pc)]

Fail(c, error) ==
    calls' = [calls EXCEPT ![c].pc = "done", ![c].raised = error]

CalculatorFrame ==
    UNCHANGED <<metrics, n_quantiles, segments, clusters, n_clusters,
                max_clusters, kmeans, optimal, clustering_results, ret,
                raised, op, engine, processor, written>>

(* line 39 *)
CopyInput(c) ==
    /\ calls[c].pc = "copy"
    /\ rfm_data' = Some(calls[c].rfm_data)
    /\ Proceed(c)
    /\ UNCHANGED rfm_scores
    /\ CalculatorFrame

(* lines 43-47, 52-56 and 58-62: the score of a column *)
ScoreColumn(c, score, name) ==
    /\ calls[c].pc = score
    /\ IF QcutRaises(Len(rfm_data.rows), calls[c].n_quantiles)
       THEN Fail(c, "ValueError") /\ UNCHANGED rfm_data
       ELSE /\ rfm_data' =
                Some(WithColumn(
                         rfm_data.rows, score,
                         [i \in 1..Len(rfm_data.rows) |->
                             QcutRank(Column(rfm_data.rows, name), i,
                                      calls[c].n_quantiles)]))
            /\ Proceed(c)
    /\ UNCHANGED rfm_scores
    /\ CalculatorFrame

(* line 50 *)
ReverseRecency(c) ==
    /\ calls[c].pc = "reverse"
    /\ IF ~HasColumn(rfm_data.rows, "R_Score")
       THEN Fail(c, "KeyError") /\ UNCHANGED rfm_data
       ELSE /\ rfm_data' =
                Some(WithColumn(
                         rfm_data.rows, "R_Score",
                         [i \in 1..Len(rfm_data.rows) |->
                             calls[c].n_quantiles + 1
                                 - rfm_data.rows[i].R_Score]))
            /\ Proceed(c)
    /\ UNCHANGED rfm_scores
    /\ CalculatorFrame

(* lines 65-69 *)
CombineScores(c) ==
    /\ calls[c].pc = "RFM_Score"
    /\ IF \E name \in {"R_Score", "F_Score", "M_Score"} :
              ~HasColumn(rfm_data.rows, name)
       THEN Fail(c, "KeyError") /\ UNCHANGED rfm_data
       ELSE /\ rfm_data' =
                Some(WithColumn(
                         rfm_data.rows, "RFM_Score",
                         [i \in 1..Len(rfm_data.rows) |->
                             RFMScoreOf(rfm_data.rows[i].R_Score,
                                        rfm_data.rows[i].F_Score,
                                        rfm_data.rows[i].M_Score)]))
            /\ Proceed(c)
    /\ UNCHANGED rfm_scores
    /\ CalculatorFrame

(* line 71 *)
StoreScores(c) ==
    /\ calls[c].pc = "store"
    /\ rfm_scores' = rfm_data
    /\ Proceed(c)
    /\ UNCHANGED rfm_data
    /\ CalculatorFrame

(* line 74 *)
ReturnScores(c) ==
    /\ calls[c].pc = "return"
    /\ calls' = [calls EXCEPT ![c].pc = "done", ![c].ret = rfm_scores]
    /\ UNCHANGED <<rfm_data, rfm_scores>>
    /\ CalculatorFrame

Call(t, q) ==
    [rfm_data |-> t, n_quantiles |-> q, pc |-> "copy", raised |-> "none",
     ret |-> None]

InterleavedTables ==
    {SpreadTable(n, a, 0, 1, 1) : n \in 1..MaxRecords, a \in 1..2}

InitInterleaved ==
    /\ metrics = <<>>
    /\ n_quantiles \in 2..3
    /\ DefaultClustering
    /\ InitCalculator
    /\ engine = NoFields
    /\ processor = NoProcessorFields
    /\ written = NothingWritten
    /\ \E t, u \in InterleavedTables :
           /\ t # u
           /\ calls = <<Call(t, n_quantiles), Call(u, n_quantiles)>>

NextInterleaved ==
    \E c \in 1..2 :
        \/ CopyInput(c)
        \/ ScoreColumn(c, "R_Score", "Recency")
        \/ ReverseRecency(c)
        \/ ScoreColumn(c, "F_Score", "Frequency")
        \/ ScoreColumn(c, "M_Score", "Monetary")
        \/ CombineScores(c)
        \/ StoreScores(c)
        \/ ReturnScores(c)

SpecInterleaved == InitInterleaved /\ [][NextInterleaved]_vars

----------------------------------------------------------------------------
(* Properties of the segment classifier *)

(* The rule table of the design, rows 1..10 in the listed order;           *)
(* row 11 ("Lost") is the catch-all.                                       *)
RuleTable ==
    << [rlo |-> 4, rhi |-> 5, flo |-> 4, fhi |-> 5, mlo |-> 4, mhi |-> 5,
        seg |-> "Champions"],
       [rlo |-> 3, rhi |-> 5, flo |-> 3, fhi |-> 5, mlo |-> 3, mhi |-> 5,
        seg |-> "Loyal Customers"],
       [rlo |-> 4, rhi |-> 5, flo |-> 2, fhi |-> 5, mlo |-> 2, mhi |-> 5,
        seg |-> "Potential Loyalist"],
       [rlo |-> 4, rhi |-> 5, flo |-> 1, fhi |-> 2, mlo |-> 1, mhi |-> 2,
        seg |-> "New Customers"],
       [rlo |-> 3, rhi |-> 5, flo |-> 3, fhi |-> 5, mlo |-> 1, mhi |-> 2,
        seg |-> "Promising"],
       [rlo |-> 2, rhi |-> 5, flo |-> 2, fhi |-> 5, mlo |-> 2, mhi |-> 5,
        seg |-> "Need Attention"],
       [rlo |-> 1, rhi |-> 2, flo |-> 2, fhi |-> 5, mlo |-> 2, mhi |-> 5,
        seg |-> "About to Sleep"],
       [rlo |-> 1, rhi |-> 2, flo |-> 3, fhi |-> 5, mlo |-> 3, mhi |-> 5,
        seg |-> "At Risk"],
       [rlo |-> 1, rhi |-> 1, flo |-> 4, fhi |-> 5, mlo |-> 4, mhi |-> 5,
        seg |-> "Cannot Lose Them"],
       [rlo |-> 1, rhi |-> 2, flo |-> 1, fhi |-> 2, mlo |-> 2, mhi |-> 5,
        seg |-> "Hibernating"] >>

RuleMatches(k, r, f, m) ==
    /\ r \in RuleTable[k].rlo..RuleTable[k].rhi
    /\ f \in RuleTable[k].flo..RuleTable[k].fhi
    /\ m \in RuleTable[k].mlo..RuleTable[k].mhi

FirstMatch(r, f, m) ==
    IF \E k \in 1..Len(RuleTable) : RuleMatches(k, r, f, m)
    THEN LET k == CHOOSE k \in 1..Len(RuleTable) :
                    /\ RuleMatches(k, r, f, m)
                    /\ \A h \in 1..(k - 1) : ~RuleMatches(h, r, f, m)
         IN  RuleTable[k].seg
    ELSE "Lost"

SegmentNames ==
    {"Champions", "Loyal Customers", "Potential Loyalist", "New Customers",
     "Promising", "Need Attention", "About to Sleep", "At Risk",
     "Cannot Lose Them", "Hibernating", "Lost"}

Segmented == segments.set

SegRows == segments.rows

TripleOf(row) == <<row.R_Score, row.F_Score, row.M_Score>>

(* C1: the segment of every record is the first matching row of the rule   *)
(* table; (5,5,5) is "Champions" and (1,1,1) is "Lost".                    *)
C1_FirstMatchWins ==
    Segmented =>
        \A i \in 1..Len(SegRows) :
            /\ SegRows[i].Segment =
                 FirstMatch(SegRows[i].R_Score, SegRows[i].F_Score,
                            SegRows[i].M_Score)
            /\ (TripleOf(SegRows[i]) = <<5, 5, 5>>
                    => SegRows[i].Segment = "Champions")
            /\ (TripleOf(SegRows[i]) = <<1, 1, 1>>
                    => SegRows[i].Segment = "Lost")

(* a record that matches rows 2 and 3 of the table but not row 1 *)
C1_Witness ==
    /\ Segmented
    /\ \E i \in 1..Len(SegRows) :
        /\ TripleOf(SegRows[i]) = <<4, 3, 4>>
        /\ SegRows[i].Segment = "Loyal Customers"

(* C2: every record gets one of the 11 segment names, and two records      *)
(* with the same score triple, in one call or in two successive calls,     *)
(* get the same segment.                                                   *)
C2_TotalDeterministic ==
    [][ segments'.set =>
          /\ \A i \in 1..Len(segments'.rows) :
                segments'.rows[i].Segment \in SegmentNames
          /\ \A i, j \in 1..Len(segments'.rows) :
                TripleOf(segments'.rows[i]) = TripleOf(segments'.rows[j])
                    => segments'.rows[i].Segment = segments'.rows[j].Segment
          /\ \A i \in 1..Len(segments.rows), j \in 1..Len(segments'.rows) :
                TripleOf(segments.rows[i]) = TripleOf(segments'.rows[j])
                    => segments.rows[i].Segment = segments'.rows[j].Segment
      ]_vars

(* two customers with one triple and different raw values, segmented in   *)
(* one call *)
C2_Witness ==
    /\ Segmented
    /\ \E i, j \in 1..Len(SegRows) :
        /\ i # j
        /\ TripleOf(SegRows[i]) = TripleOf(SegRows[j])
        /\ SegRows[i].Frequency # SegRows[j].Frequency
        /\ SegRows[i].Segment = "About to Sleep"

----------------------------------------------------------------------------
(* Properties of the scoring step *)

Scored == rfm_scores.set

Rows == rfm_scores.rows

Ids == 1..Len(Rows)

RanksOf(name) ==
    [i \in 1..Len(metrics) |-> RankFirst(Column(metrics, name), i)]

(* C3: when the table has at least n_quantiles records, every scored       *)
(* record has R_Score, F_Score and M_Score in 1..n_quantiles.              *)
C3_ScoresInRange ==
    (Scored /\ Len(metrics) >= n_quantiles) =>
        \A i \in Ids :
            /\ Rows[i].R_Score \in 1..n_quantiles
            /\ Rows[i].F_Score \in 1..n_quantiles
            /\ Rows[i].M_Score \in 1..n_quantiles

C3_Witness ==
    /\ Scored
    /\ n_quantiles = 3
    /\ Len(metrics) >= n_quantiles
    /\ \E i, j \in Ids : Rows[i].F_Score = 1 /\ Rows[j].F_Score = n_quantiles
    /\ \E i, j \in Ids : Rows[i].R_Score = 1 /\ Rows[j].R_Score = n_quantiles

(* C4: in each dimension, when the table has at least n_quantiles records, *)
(* the buckets are contiguous in rank (the order of raw value, then input  *)
(* position), every score level 1..n_quantiles is used and the sizes of    *)
(* two levels differ by at most 1.                                         *)
LevelCount(name, l) == Cardinality({i \in Ids : Rows[i][name] = l})

Before(name, i, j) ==
    \/ Rows[i][name] < Rows[j][name]
    \/ (Rows[i][name] = Rows[j][name] /\ i < j)

C4_BalancedBuckets ==
    (Scored /\ Len(metrics) >= n_quantiles) =>
        /\ \A name \in {"R_Score", "F_Score", "M_Score"} :
            \A l, k \in 1..n_quantiles :
                /\ LevelCount(name, l) >= 1
                /\ LevelCount(name, l) - LevelCount(name, k) <= 1
        /\ \A i, j \in Ids :
            /\ Before("Recency", i, j) => Rows[i].R_Score >= Rows[j].R_Score
            /\ Before("Frequency", i, j) => Rows[i].F_Score <= Rows[j].F_Score
            /\ Before("Monetary", i, j) => Rows[i].M_Score <= Rows[j].M_Score

(* 7 customers on 3 levels: buckets of unequal size *)
C4_Witness ==
    /\ Scored
    /\ Len(metrics) = 7
    /\ n_quantiles = 3
    /\ LevelCount("F_Score", 1) = 3
    /\ LevelCount("F_Score", 2) = 2
    /\ LevelCount("R_Score", 3) = 3
    /\ LevelCount("R_Score", 2) = 2
    /\ LevelCount("M_Score", 1) = 3

C6_StableUniqueRanks ==
    Scored =>
        /\ \A name \in {"Recency", "Frequency", "Monetary"} :
            /\ {RanksOf(name)[i] : i \in Ids} = Ids
            /\ \A i, j \in Ids :
                (i < j /\ metrics[i][name] = metrics[j][name])
                    => RanksOf(name)[i] < RanksOf(name)[j]
        /\ \A i, j \in Ids :
            /\ (i < j /\ Rows[i].Recency = Rows[j].Recency)
                    => Rows[i].R_Score >= Rows[j].R_Score
            /\ (i < j /\ Rows[i].Frequency = Rows[j].Frequency)
                    => Rows[i].F_Score <= Rows[j].F_Score
            /\ (i < j /\ Rows[i].Monetary = Rows[j].Monetary)
                    => Rows[i].M_Score <= Rows[j].M_Score

C6_Witness ==
    /\ Scored
    /\ \E i, j \in Ids :
        /\ i < j
        /\ Rows[i].Recency = Rows[j].Recency
        /\ Rows[i].R_Score > Rows[j].R_Score
        /\ Rows[i].Frequency = Rows[j].Frequency
        /\ Rows[i].F_Score < Rows[j].F_Score
        /\ Rows[i].Monetary = Rows[j].Monetary
        /\ Rows[i].M_Score < Rows[j].M_Score

(* C8: the combined code of every scored record is                         *)
(* R_Score*100 + F_Score*10 + M_Score, on every scale.                     *)
C8_CodeIsWeightedSum ==
    Scored =>
        \A i \in Ids :
            Rows[i].RFM_Score =
                Rows[i].R_Score * 100 + Rows[i].F_Score * 10 + Rows[i].M_Score

(* C9: two segmented records with equal combined codes have equal          *)
(* segments, on every scale.                                               *)
C9_CodeDeterminesSegment ==
    (Segmented /\ Scored) =>
        \A i, j \in 1..Len(SegRows) :
            SegRows[i].RFM_Score = SegRows[j].RFM_Score
                => SegRows[i].Segment = SegRows[j].Segment

(* C9 as amended: on the scales up to 10 levels, two segmented records     *)
(* with equal combined codes have equal segments.                          *)
C9_CodeDeterminesSegmentUpTo10 ==
    (Segmented /\ Scored /\ n_quantiles <= 10) =>
        \A i, j \in 1..Len(SegRows) :
            SegRows[i].RFM_Score = SegRows[j].RFM_Score
                => SegRows[i].Segment = SegRows[j].Segment

C9_Witness ==
    /\ Segmented
    /\ Scored
    /\ n_quantiles <= 10
    /\ \E i, j \in 1..Len(SegRows) :
        /\ i # j
        /\ SegRows[i].RFM_Score = SegRows[j].RFM_Score
        /\ SegRows[i].Segment = SegRows[j].Segment

(* C10: scoring a table with fewer records than n_quantiles fails with     *)
(* InsufficientDataError and returns no scored table.                      *)
C10_InsufficientData ==
    (op = "calculate_rfm_scores" /\ Len(metrics) < n_quantiles) =>
        (raised = "InsufficientDataError" /\ ~ret.set)

----------------------------------------------------------------------------
(* Properties of the error handling of scoring and clustering *)

Invalid(t) ==
    \E i \in 1..Len(t) :
        t[i].Recency < 0 \/ t[i].Frequency <= 0 \/ t[i].Monetary < 0

(* C11: scoring or clustering a table that holds a negative Recency, a     *)
(* non-positive Frequency or a negative Monetary fails with                *)
(* InvalidInputError and returns nothing.                                  *)
C11_InvalidInputRejected ==
    (Invalid(metrics) /\ op \in {"calculate_rfm_scores", "perform_clustering"})
        => (raised = "InvalidInputError" /\ ~ret.set)

AllEqual(t, name) == \A i, j \in 1..Len(t) : t[i][name] = t[j][name]

(* C12: scoring a table of at least n_quantiles customers that all have    *)
(* the same raw value in a dimension fails with                            *)
(* DegenerateDistributionError and returns no scores.                      *)
C12_DegenerateRejected ==
    (/\ op = "calculate_rfm_scores"
     /\ Len(metrics) >= n_quantiles
     /\ \E name \in {"Recency", "Frequency", "Monetary"} :
            AllEqual(metrics, name))
        => (raised = "DegenerateDistributionError" /\ ~ret.set)

----------------------------------------------------------------------------
(* Properties of the cluster-count optimizer *)

Candidates == KRange(max_clusters)

Inertia(k) == kmeans[k].inertia

Silhouette(k) == kmeans[k].silhouette

Abs(x) == IF x < 0 THEN -x ELSE x

(* C13: the K chosen by the optimizer, which is also the reported number   *)
(* of clusters, lies in 2..max_clusters.                                   *)
C13_KInRange ==
    optimal.set =>
        /\ optimal.optimal_k \in 2..max_clusters
        /\ (clustering_results.set
                => clustering_results.n_clusters \in 2..max_clusters)

(* the optimizer returns max_clusters itself *)
C13_Witness ==
    /\ optimal.set
    /\ max_clusters = 3
    /\ optimal.optimal_k = max_clusters
    /\ clustering_results.set
    /\ clustering_results.n_clusters = max_clusters

(* C14: the silhouette-best K has the highest silhouette of the            *)
(* candidates; the chosen K is the silhouette-best K when it is within 1   *)
(* of the elbow K and the elbow K otherwise, never a third value.          *)
C14_CombinationPolicy ==
    optimal.set =>
        /\ optimal.best_silhouette_k \in Candidates
        /\ \A k \in Candidates :
                Silhouette(k) <= Silhouette(optimal.best_silhouette_k)
        /\ optimal.optimal_k \in {optimal.best_silhouette_k, optimal.elbow_k}
        /\ (Abs(optimal.best_silhouette_k - optimal.elbow_k) <= 1
                => optimal.optimal_k = optimal.best_silhouette_k)
        /\ (Abs(optimal.best_silhouette_k - optimal.elbow_k) > 1
                => optimal.optimal_k = optimal.elbow_k)

(* the two heuristics are one apart and the silhouette-best K is chosen *)
C14_Witness ==
    /\ optimal.set
    /\ optimal.best_silhouette_k = optimal.elbow_k + 1
    /\ optimal.optimal_k = optimal.best_silhouette_k
    /\ optimal.method = "silhouette"

(* the second discrete difference of the inertia curve at K *)
Curvature(k) == Inertia(k - 1) - 2 * Inertia(k) + Inertia(k + 1)

(* C15: with at least three candidates, the elbow K is a candidate with    *)
(* both neighbours whose second difference of inertia,                     *)
(* inertia(K-1) - 2*inertia(K) + inertia(K+1), is the highest.             *)
C15_ElbowMaximizesCurvature ==
    (optimal.set /\ max_clusters >= 4) =>
        /\ optimal.elbow_k \in 3..(max_clusters - 1)
        /\ \A k \in 3..(max_clusters - 1) :
                Curvature(k) <= Curvature(optimal.elbow_k)

(* The chosen K as a function of the set of (K, inertia, silhouette)       *)
(* tuples alone.                                                           *)
Tuples == {<<k, Inertia(k), Silhouette(k)>> : k \in Candidates}

KsOf(T) == {t[1] : t \in T}

InertiaIn(T, k) == (CHOOSE t \in T : t[1] = k)[2]

SilhouetteIn(T, k) == (CHOOSE t \in T : t[1] = k)[3]

Min(S) == CHOOSE x \in S : \A y \in S : x <= y

BestSilhouetteIn(T) ==
    Min({k \in KsOf(T) :
            \A j \in KsOf(T) : SilhouetteIn(T, j) <= SilhouetteIn(T, k)})

BendIn(T, k) ==
    InertiaIn(T, k) - 2 * InertiaIn(T, k + 1) + InertiaIn(T, k + 2)

ElbowIn(T) ==
    IF Cardinality(T) < 3 THEN Min(KsOf(T))
    ELSE LET inner == {k \in KsOf(T) : k + 2 \in KsOf(T)}
         IN  Min({k \in inner : \A j \in inner : BendIn(T, j) <= BendIn(T, k)})

MergeOf(T) ==
    IF Abs(BestSilhouetteIn(T) - ElbowIn(T)) <= 1
    THEN BestSilhouetteIn(T)
    ELSE ElbowIn(T)

----------------------------------------------------------------------------
(* Further properties of the segment classifier and of the optimizer *)

Triple(r, f, m) == [R_Score |-> r, F_Score |-> f, M_Score |-> m]

(* C26: no record is ever assigned "At Risk" or "Cannot Lose Them": every  *)
(* triple that satisfies rule 8 or rule 9 satisfies rule 7, so at most 9   *)
(* of the 11 names appear; the same holds of the rule chain on integer     *)
(* triples around the 1..5 scale.                                          *)
C26_ShadowedRules ==
    /\ Segmented =>
          \A i \in 1..Len(SegRows) :
              SegRows[i].Segment \notin {"At Risk", "Cannot Lose Them"}
    /\ \A r, f, m \in -1..7 :
          assign_segment(Triple(r, f, m)) \notin {"At Risk", "Cannot Lose Them"}
    /\ Cardinality({assign_segment(Triple(r, f, m)) : r, f, m \in ScoreLevels})
          <= 9

(* a record that satisfies rules 7, 8 and 9 gets the segment of rule 7 *)
C26_Witness ==
    /\ Segmented
    /\ \E i \in 1..Len(SegRows) :
        /\ TripleOf(SegRows[i]) = <<1, 5, 5>>
        /\ RuleMatches(8, 1, 5, 5)
        /\ RuleMatches(9, 1, 5, 5)
        /\ SegRows[i].Segment = "About to Sleep"

(* C27: the elbow K is 2 + argmax of the second differences of inertia:    *)
(* it lies in 2..max_clusters-2 when there are at least three candidates   *)
(* and is 2 otherwise; for max_clusters >= 4 the optimizer never returns   *)
(* max_clusters.                                                           *)
C27_NeverMaxClusters ==
    optimal.set =>
        /\ optimal.elbow_k =
              IF max_clusters >= 4
              THEN 2 + ArgMax([i \in 1..(max_clusters - 3) |->
                                  Inertia(i + 1) - 2 * Inertia(i + 2)
                                      + Inertia(i + 3)])
              ELSE 2
        /\ (max_clusters >= 4 =>
              /\ optimal.elbow_k \in 2..(max_clusters - 2)
              /\ optimal.optimal_k # max_clusters)

(* the highest K the optimizer can return: the silhouette-best K one above *)
(* the highest elbow *)
C27_Witness ==
    /\ optimal.set
    /\ max_clusters >= 5
    /\ optimal.elbow_k = max_clusters - 2
    /\ optimal.best_silhouette_k = max_clusters - 1
    /\ optimal.optimal_k = max_clusters - 1

----------------------------------------------------------------------------
(* Properties of clustering *)

(* C17: automatic selection with max_clusters at or above the number of    *)
(* distinct feature points fails with InsufficientDataError and produces   *)
(* no assignment and no diagnostics.                                       *)
C17_TooFewPointsRejected ==
    (/\ op = "perform_clustering"
     /\ ~n_clusters.set
     /\ max_clusters >= DistinctPoints(metrics))
        => (raised = "InsufficientDataError" /\ ~ret.set
            /\ ~clustering_results.set)

(* C18: a perform_clustering call that returns reports the supplied        *)
(* n_clusters, without running the optimizer, when a count is supplied,    *)
(* and the optimizer's choice of this call when none is; it returns one    *)
(* row per input customer, in the input order, with a Cluster label in     *)
(* 0..K-1 for the reported K, and stores what it returns.                  *)
C18_DelegatesWhenOmitted ==
    [][ (op' = "perform_clustering" /\ raised' = "none") =>
          /\ clustering_results'.set
          /\ (n_clusters.set =>
                /\ optimal' = optimal
                /\ clustering_results'.n_clusters = n_clusters.val)
          /\ (~n_clusters.set =>
                /\ optimal' = find_optimal_clusters(max_clusters, kmeans)
                /\ clustering_results'.n_clusters = optimal'.optimal_k)
          /\ clusters'.set
          /\ ret' = clusters'
          /\ Len(clusters'.rows) = Len(metrics)
          /\ \A i \in 1..Len(metrics) :
                /\ clusters'.rows[i].CustomerID = metrics[i].CustomerID
                /\ clusters'.rows[i].Cluster
                        \in 0..(clustering_results'.n_clusters - 1)
      ]_vars

(* no count supplied, the optimizer chooses 3 and the label 2 is used *)
C18_Witness ==
    /\ op = "perform_clustering"
    /\ raised = "none"
    /\ ~n_clusters.set
    /\ optimal.optimal_k = 3
    /\ clustering_results.n_clusters = 3
    /\ \E i \in 1..Len(clusters.rows) : clusters.rows[i].Cluster = 2

----------------------------------------------------------------------------
(* Properties of the reports *)

Report == ret.rows

(* C19: the Percentage column of a segment report sums to 100 up to the    *)
(* rounding of its rows: each row is rounded to one decimal, so the sum    *)
(* is off by at most 0.05 per row (percentages are in tenths).             *)
C19_PercentagesSumTo100 ==
    (op = "get_segment_analysis" /\ raised = "none") =>
        Abs(2 * SumOf(Column(Report, "Percentage")) - 2000) <= Len(Report)

(* three segments of one customer each: 33.3 + 33.3 + 33.3 *)
C19_Witness ==
    /\ op = "get_segment_analysis"
    /\ raised = "none"
    /\ Len(Report) = 3
    /\ SumOf(Column(Report, "Percentage")) = 999

CountOf(t, name, key) == Cardinality({i \in 1..Len(t) : t[i][name] = key})

OneRowPerKey(report, t, name) ==
    /\ {report[j][name] : j \in 1..Len(report)}
            = {t[i][name] : i \in 1..Len(t)}
    /\ \A j, k \in 1..Len(report) :
            report[j][name] = report[k][name] => j = k
    /\ \A j \in 1..Len(report) :
            report[j].CustomerID_count = CountOf(t, name, report[j][name])
    /\ SumOf(Column(report, "CustomerID_count")) = Len(t)

(* C20: a report call changes no stored table, and a report that is        *)
(* returned has exactly one row per Segment (Cluster) value present, with  *)
(* the number of records of that value as its count; the counts sum to     *)
(* the number of records.                                                  *)
C20_ReadOnlyGrouping ==
    [][ /\ (op' \in {"get_segment_analysis", "get_cluster_analysis"} =>
              /\ rfm_data' = rfm_data
              /\ rfm_scores' = rfm_scores
              /\ segments' = segments
              /\ clusters' = clusters)
        /\ ((op' = "get_segment_analysis" /\ raised' = "none") =>
              OneRowPerKey(ret'.rows, segments.rows, "Segment"))
        /\ ((op' = "get_cluster_analysis" /\ raised' = "none") =>
              OneRowPerKey(ret'.rows, clusters.rows, "Cluster"))
      ]_vars

(* a cluster report of three rows, one of them for two customers *)
C20_Witness ==
    /\ op = "get_cluster_analysis"
    /\ raised = "none"
    /\ Len(Report) = 3
    /\ \E j \in 1..Len(Report) : Report[j].CustomerID_count = 2
    /\ segments.set

----------------------------------------------------------------------------
(* Properties of the calculator as a whole *)

ChosenK ==
    IF n_clusters.set THEN n_clusters.val
    ELSE find_optimal_clusters(max_clusters, kmeans).optimal_k

(* C21: the scoring path and the clustering path do not touch each other:  *)
(* no call changes the metrics table, scoring and segmentation leave the   *)
(* clustering results alone and clustering leaves the scoring results      *)
(* alone, segmentation of stored scores succeeds whether or not clusters   *)
(* exist, and whatever the order of the calls the stored segments and      *)
(* clusters are those of the metrics table alone.                          *)
C21_PathsIndependent ==
    [][ /\ metrics' = metrics
        /\ (op' \in {"calculate_rfm_scores", "create_segments"} =>
              /\ clusters' = clusters
              /\ clustering_results' = clustering_results
              /\ optimal' = optimal)
        /\ (op' = "perform_clustering" =>
              /\ rfm_data' = rfm_data
              /\ rfm_scores' = rfm_scores
              /\ segments' = segments)
        /\ ((op' = "create_segments" /\ rfm_scores.set) => segments'.set)
        /\ (segments'.set =>
              segments'.rows = SegmentedTable(ScoredTable(metrics, n_quantiles)))
        /\ (clusters'.set =>
              clusters'.rows =
                  ClusteredTable(metrics, KMeansLabels(metrics, ChosenK, kmeans)))
      ]_vars

(* segmentation after clustering, on a table with both results stored *)
C21_Witness ==
    /\ op = "create_segments"
    /\ raised = "none"
    /\ segments.set
    /\ clusters.set
    /\ Len(metrics) >= 4

----------------------------------------------------------------------------
(* Properties of the engine *)

(* the result fields of the calculator and of the engine *)
StoredResults == <<rfm_data, rfm_scores, segments, clusters, engine>>

(* C22: a call of calculate_rfm_analysis, perform_clustering_analysis or   *)
(* run_complete_analysis that raises returns nothing and leaves the result *)
(* fields of the calculator and of the engine as they were before it.      *)
C22_FailureLeavesNothing ==
    [][ (/\ op' \in {"calculate_rfm_analysis", "perform_clustering_analysis",
                     "run_complete_analysis"}
         /\ raised' # "none")
        => /\ ret' = None
           /\ StoredResults' = StoredResults ]_vars


(* C24: a result field (rfm_scores, segments, clusters, strategies) of the *)
(* calculator or of the engine that holds a value keeps that value in      *)
(* every later call.                                                       *)
C24_WriteOnce ==
    [][ /\ (rfm_scores.set => rfm_scores' = rfm_scores)
        /\ (segments.set => segments' = segments)
        /\ (clusters.set => clusters' = clusters)
        /\ (engine.rfm_scores.set => engine'.rfm_scores = engine.rfm_scores)
        /\ (engine.segments.set => engine'.segments = engine.segments)
        /\ (engine.clusters.set => engine'.clusters = engine.clusters)
        /\ (engine.strategies.set => engine'.strategies = engine.strategies)
      ]_vars


(* C25: the table that generate_marketing_strategies returns has, for      *)
(* every segment present in the engine's segmented table, exactly one row, *)
(* and the row counts the customers of the segment.                        *)
C25_StrategyForEverySegment ==
    (op = "generate_marketing_strategies" /\ raised = "none") =>
        \A i \in 1..Len(engine.segments.rows) :
            LET segment == engine.segments.rows[i].Segment
                found == {j \in 1..Len(ret.rows) : ret.rows[j].Segment = segment}
            IN  /\ Cardinality(found) = 1
                /\ \A j \in found :
                       ret.rows[j].Customer_Count =
                           Len(InGroup(engine.segments.rows, "Segment", segment))


(* C29: in every state the engine reaches, segments stored in the engine   *)
(* come with the engine's scores and metrics and with the calculator's own *)
(* segments (generate_report fails only when the engine has no segments),  *)
(* strategies come with segments, and clusters come with metrics.          *)
C29_ResultsComeInOrder ==
    /\ engine.segments.set =>
           engine.rfm_scores.set /\ engine.rfm_data.set /\ segments.set
    /\ engine.strategies.set => engine.segments.set
    /\ engine.clusters.set => engine.rfm_data.set
    /\ (op = "generate_report" /\ raised # "none") => ~engine.segments.set

(* a report written from an engine that holds every result *)
C29_Witness ==
    /\ op = "generate_report"
    /\ raised = "none"
    /\ engine.segments.set
    /\ engine.strategies.set
    /\ engine.clusters.set

(* C30: load_and_process_data leaves the scores, segments, clusters and    *)
(* strategies of the engine and the fields of the calculator as they are;  *)
(* with segments stored, generate_marketing_strategies,                    *)
(* create_visualizations and generate_report succeed and work on those     *)
(* segments, whatever was loaded since.                                    *)
C30_LoadKeepsResults ==
    [][ /\ (op' = "load_and_process_data" =>
              /\ engine'.rfm_scores = engine.rfm_scores
              /\ engine'.segments = engine.segments
              /\ engine'.clusters = engine.clusters
              /\ engine'.strategies = engine.strategies
              /\ <<rfm_data, rfm_scores, segments, clusters>>' =
                     <<rfm_data, rfm_scores, segments, clusters>>)
        /\ ((/\ op' \in {"generate_marketing_strategies",
                         "create_visualizations", "generate_report"}
             /\ engine.segments.set)
            => /\ raised' = "none"
               /\ engine'.segments = engine.segments
               /\ (op' = "generate_marketing_strategies" =>
                     engine'.strategies.rows =
                         generate_strategies_for_segments(engine.segments.rows))
               /\ (op' = "generate_report" =>
                     /\ written'.report.rows[1].customers =
                            Len(engine.segments.rows)
                     /\ written'.report.rows[1].segment_analysis =
                            SegmentAnalysisOf(engine.segments.rows)))
      ]_vars

(* a report written from the segments of one file with another file loaded *)
C30_Witness ==
    /\ op = "generate_report"
    /\ raised = "none"
    /\ engine.rfm_data.set
    /\ Len(engine.rfm_data.rows) # Len(engine.segments.rows)
    /\ written.report.rows[1].customers = Len(engine.segments.rows)


(* C28: a step called before what it needs is there raises ValueError,     *)
(* returns nothing and leaves every stored field as it was: the engine's   *)
(* steps without RFM data or without segments, the calculator's analyses   *)
(* and create_segments without their table, the DataProcessor's steps      *)
(* without loaded or cleaned data.                                         *)
PrerequisiteMissing(name) ==
    \/ /\ name \in {"calculate_rfm_analysis", "perform_clustering_analysis"}
       /\ ~engine.rfm_data.set
    \/ /\ name \in {"generate_marketing_strategies", "generate_report"}
       /\ ~engine.segments.set
    \/ /\ name = "create_visualizations"
       /\ ~engine.rfm_data.set \/ ~engine.segments.set
    \/ name = "get_segment_analysis" /\ ~segments.set
    \/ name = "get_cluster_analysis" /\ ~clusters.set
    \/ name = "create_segments" /\ ~rfm_scores.set
    \/ name = "clean_data" /\ ~processor.raw_data.set
    \/ /\ name \in {"set_analysis_date", "prepare_rfm_data"}
       /\ ~processor.processed_data.set

C28_PrerequisitesChecked ==
    [][ PrerequisiteMissing(op') =>
            /\ raised' = "ValueError"
            /\ ret' = None
            /\ <<StoredResults, processor, written>>' =
                   <<StoredResults, processor, written>> ]_vars

(* a report asked for after loading a file and before any analysis, on a  *)
(* processor whose analysis date was set by hand                           *)
C28_Witness ==
    /\ op = "generate_report"
    /\ raised = "ValueError"
    /\ engine.rfm_data.set
    /\ ~engine.segments.set
    /\ processor.analysis_date = SomeInt(LastDay + 2)


----------------------------------------------------------------------------
(* Properties of calls that overlap *)

(* C23: of two calculate_rfm_scores calls that take turns on one           *)
(* calculator, each ends as it would alone: it raises if its own table     *)
(* cannot be scored, and otherwise returns the scores of its own table.    *)
C23_EachCallReturnsItsOwnScores ==
    \A c \in 1..Len(calls) :
        calls[c].pc = "done" =>
            IF QcutRaises(Len(calls[c].rfm_data), calls[c].n_quantiles)
            THEN calls[c].raised = "ValueError"
            ELSE /\ calls[c].raised = "none"
                 /\ calls[c].ret =
                        Some(ScoredTable(calls[c].rfm_data,
                                         calls[c].n_quantiles))

====
